---- MODULE Spec2Model ----
(***************************************************************************)
(* Model of bin/segmenter.py: the cellpose segmentation script.  One run   *)
(* of the script is one behaviour: model initialisation, diameter parse,   *)
(* image load, CLAHE, model inference, mask cleaning (trim, per-label       *)
(* small-object removal, sequential relabelling), mask write and the        *)
(* optional ROI extraction and archive write.                              *)
(*                                                                         *)
(* Representation.  A label image is a function from Pixels to label       *)
(* values.  A boolean image (mask == cell_id) is the set of its True        *)
(* pixels.  A float is an exact rational <<num, den>> with den > 0.  A     *)
(* contour is represented by the 8-connected pixel region it encloses.     *)
(***************************************************************************)
EXTENDS Integers, Sequences, FiniteSets, TLC

\* ------------------------------------------------------------------ bounds
Height == 4
Width == 5
MaxLabel == 2
MaxStrLen == 2
MaxEstimate == 4

\* ------------------------------------------------------------ image domain
Rows == 0 .. (Height - 1)
Cols == 0 .. (Width - 1)
Pixels == Rows \X Cols
Labels == 0 .. MaxLabel

IsEdge(p) == p[1] = 0 \/ p[1] = Height - 1 \/ p[2] = 0 \/ p[2] = Width - 1
Interior == {p \in Pixels : ~IsEdge(p)}

zeros_like == [p \in Pixels |-> 0]

\* ------------------------------------------------------------------ floats
None == [kind |-> "None"]
Float(n, d) == [kind |-> "float", num |-> n, den |-> d]
Str(s) == [kind |-> "str", chars |-> s]

\* diameter / 2
Half(x) == Float(x.num, 2 * x.den)
\* n < x for an integer n and a float x
IntLess(n, x) == n * x.den < x.num

\* ------------------------------------------------- float(cell_diameter)
Digits == <<"0", "1", "2", "3", "4", "5", "6", "7", "8", "9">>
Chars == {"3", "5", ".", "a"}
IsDigit(ch) == \E i \in 1 .. Len(Digits) : Digits[i] = ch
DigitValue(ch) == (CHOOSE i \in 1 .. Len(Digits) : Digits[i] = ch) - 1

RECURSIVE Pow10(_)
Pow10(n) == IF n = 0 THEN 1 ELSE 10 * Pow10(n - 1)

RECURSIVE DigitsValue(_)
DigitsValue(s) ==
    IF s = <<>> THEN 0
    ELSE 10 * DigitsValue(SubSeq(s, 1, Len(s) - 1)) + DigitValue(s[Len(s)])

DotPositions(s) == {i \in 1 .. Len(s) : s[i] = "."}
DigitPositions(s) == {i \in 1 .. Len(s) : IsDigit(s[i])}

\* Python's float() on a string of digits and at most one point, at least one
\* digit; anything else raises ValueError.
FloatParses(s) ==
    /\ DigitPositions(s) \cup DotPositions(s) = 1 .. Len(s)
    /\ Cardinality(DotPositions(s)) <= 1
    /\ DigitPositions(s) # {}

FloatValue(s) ==
    LET dots == DotPositions(s)
        digs == SelectSeq(s, IsDigit)
        frac == IF dots = {} THEN 0
                ELSE Len(s) - (CHOOSE i \in dots : TRUE)
    IN  Float(DigitsValue(digs), Pow10(frac))

\* try: float(cell_diameter) except ValueError: None
ParseDiameter(s) == IF FloatParses(s) THEN FloatValue(s) ELSE None

ArgStrings == UNION {[1 .. n -> Chars] : n \in 0 .. MaxStrLen}

\* ---------------------------------------------------------------- trim
SetCol(image, c) == [p \in Pixels |-> IF p[2] = c THEN 0 ELSE image[p]]
SetRow(image, r) == [p \in Pixels |-> IF p[1] = r THEN 0 ELSE image[p]]

\* Mutant of trim: the last row is left as it was.
trim_keeps_last_row(image) ==
    SetRow(SetCol(SetCol(image, 0), Width - 1), 0)

trim(image) ==
    SetRow(SetRow(SetCol(SetCol(image, 0), Width - 1), 0), Height - 1)

\* ------------------------------------------------ connected components
\* skimage connectivity 1: the 4 edge neighbours; 2: the 8 neighbours too.
Adjacent(p, q, connectivity) ==
    LET dr == IF p[1] >= q[1] THEN p[1] - q[1] ELSE q[1] - p[1]
        dc == IF p[2] >= q[2] THEN p[2] - q[2] ELSE q[2] - p[2]
    IN  /\ p # q
        /\ dr <= 1
        /\ dc <= 1
        /\ dr + dc <= connectivity

RECURSIVE Grow(_, _, _)
Grow(region, ar, connectivity) ==
    LET more == {q \in ar \ region :
                    \E p \in region : Adjacent(p, q, connectivity)}
    IN  IF more = {} THEN region
        ELSE Grow(region \cup more, ar, connectivity)

Component(p, ar, connectivity) == Grow({p}, ar, connectivity)
Components(ar, connectivity) == {Component(p, ar, connectivity) : p \in ar}

\* morphology.remove_small_objects(ar, min_size) on a boolean image, default
\* connectivity 1: components with fewer than min_size pixels are cleared.
remove_small_objects(ar, min_size) ==
    {p \in ar : ~IntLess(Cardinality(Component(p, ar, 1)), min_size)}

\* ------------------------------------------------------ cleaning loop
Equals(image, cell_id) == {p \in Pixels : image[p] = cell_id}
amax(image) == CHOOSE v \in {image[p] : p \in Pixels} :
                   \A p \in Pixels : image[p] <= v

\* for cell_id in range(1, cell_number): canvas[where(...)] = cell_id
RECURSIVE FillCanvas(_, _, _, _, _)
FillCanvas(cv, image, cell_id, cell_number, min_size) ==
    IF cell_id >= cell_number THEN cv
    ELSE LET keep == remove_small_objects(Equals(image, cell_id), min_size)
         IN  FillCanvas([p \in Pixels |-> IF p \in keep THEN cell_id ELSE cv[p]],
                        image, cell_id + 1, cell_number, min_size)

\* segmentation.relabel_sequential(label_field, offset = 1): forward map by
\* rank among the sorted unique values, 0 kept at 0.
relabel_forward(in_vals, v) ==
    IF v = 0 THEN 0
    ELSE 1 + Cardinality({u \in in_vals \ {0} : u < v})

\* Mutant of relabel_sequential: the labels are left as they were.
relabel_identity(label_field) == label_field

\* Mutant of relabel_sequential: labels numbered in raster order of first
\* appearance.
relabel_by_appearance(label_field) ==
    LET first(v) == CHOOSE i \in 0 .. (Height * Width - 1) :
                        /\ \E p \in Pixels :
                              p[1] * Width + p[2] = i /\ label_field[p] = v
                        /\ \A p \in Pixels :
                              label_field[p] = v => p[1] * Width + p[2] >= i
        in_vals == {label_field[p] : p \in Pixels} \ {0}
    IN  [p \in Pixels |->
            IF label_field[p] = 0 THEN 0
            ELSE 1 + Cardinality({u \in in_vals :
                                     first(u) < first(label_field[p])})]

\* Mutant of relabel_sequential: every foreground pixel becomes label 1.
relabel_binary(label_field) ==
    [p \in Pixels |-> IF label_field[p] = 0 THEN 0 ELSE 1]

relabel_sequential(label_field) ==
    LET in_vals == {label_field[p] : p \in Pixels}
    IN  [p \in Pixels |-> relabel_forward(in_vals, label_field[p])]

\* line 87: np.amax(mask, axis = None) + 1
cell_number(image) == amax(image) + 1

\* Mutant of roi_cell_number: the loop stops one label short.
roi_cell_number_short(image) == amax(image)

\* line 100: np.amax(mask, axis = None) + 1
roi_cell_number(image) == amax(image) + 1

\* ---------------------------------------------------------------- ROIs
\* cv2.findContours(binary, RETR_EXTERNAL, ...): one external contour per
\* 8-connected foreground region.
findContours(binary) == Components(binary, 2)

RECURSIVE str(_)
str(i) == IF i < 10 THEN Digits[i + 1]
          ELSE str(i \div 10) \o Digits[(i % 10) + 1]

\* ------------------------------------------------------------- the state
VARIABLES
    pc,             \* the statement the script is at
    cell_diameter,  \* the argument string, then float or None (lines 53, 64-66)
    output_zip,     \* None or the archive path (line 54)
    diameter,       \* returned by model.eval (line 81)
    mask,           \* model output, trimmed in place, then the relabelled mask
    model_mask,     \* history: the mask as model.eval returned it
    canvas,         \* line 88
    cells,          \* line 102
    eval_diameter,  \* history: the diameter argument model.eval was called with
    min_size,       \* history: the threshold last handed to remove_small_objects
    completed,      \* history: the stages that ran to completion
    mask_file,      \* the file at output_mask_file
    roi_archive,    \* the file at output_zip
    writes          \* history: the order of the file writes

vars == <<pc, cell_diameter, output_zip, diameter, mask, model_mask, canvas,
          cells, eval_diameter, min_size, completed, mask_file,
          roi_archive, writes>>

\* A file is <<>> while it does not exist and <<content>> once written.
Absent == <<>>
File(content) == <<content>>
Unbound == [kind |-> "unbound"]

\* The masks model.eval may return: any labelling of the interior, the edge
\* pixels carrying one common value.
RawMasks ==
    {[p \in Pixels |-> IF p \in Interior THEN inner[p] ELSE b] :
        inner \in [Interior -> Labels], b \in Labels}

EstimatedDiameters == {Float(k, 1) : k \in 1 .. MaxEstimate}

Init ==
    /\ pc = "init_model"
    /\ cell_diameter \in {Str(s) : s \in ArgStrings}
    /\ output_zip \in {"None", "rois.zip"}
    /\ diameter = Unbound
    /\ mask = zeros_like
    /\ model_mask = zeros_like
    /\ canvas = zeros_like
    /\ cells = <<>>
    /\ eval_diameter = Unbound
    /\ min_size = Unbound
    /\ completed = {}
    /\ mask_file = Absent
    /\ roi_archive = Absent
    /\ writes = <<>>

\* Mutant of Raise: the exception is swallowed and the script goes on to save.
RaiseSwallowed == pc' = "imsave"

\* An uncaught exception: the process terminates, nothing else runs.
Raise == pc' = "failed"

\* line 59: models.Cellpose(gpu = False, model_type = model_name)
InitModel ==
    /\ pc = "init_model"
    /\ \/ /\ pc' = "parse_diameter"
          /\ completed' = completed \cup {"init_model"}
       \/ /\ Raise
          /\ UNCHANGED completed
    /\ UNCHANGED <<cell_diameter, output_zip, diameter, mask, model_mask,
                   canvas, cells, eval_diameter, min_size, mask_file,
                   roi_archive, writes>>

\* lines 63-66
ParseArg ==
    /\ pc = "parse_diameter"
    /\ cell_diameter' = ParseDiameter(cell_diameter.chars)
    /\ pc' = "imread"
    /\ UNCHANGED <<output_zip, diameter, mask, model_mask, canvas, cells,
                   eval_diameter, min_size, completed, mask_file,
                   roi_archive, writes>>

\* line 74: io.imread(tiff_path)
LoadImage ==
    /\ pc = "imread"
    /\ \/ /\ pc' = "claher"
          /\ completed' = completed \cup {"imread"}
       \/ /\ Raise
          /\ UNCHANGED completed
    /\ UNCHANGED <<cell_diameter, output_zip, diameter, mask, model_mask,
                   canvas, cells, eval_diameter, min_size, mask_file,
                   roi_archive, writes>>

\* line 77: claher(img)
Claher ==
    /\ pc = "claher"
    /\ \/ /\ pc' = "eval"
          /\ completed' = completed \cup {"claher"}
       \/ /\ Raise
          /\ UNCHANGED completed
    /\ UNCHANGED <<cell_diameter, output_zip, diameter, mask, model_mask,
                   canvas, cells, eval_diameter, min_size, mask_file,
                   roi_archive, writes>>

\* The diameter model.eval returns: the one it was given, or its estimate
\* when it was given None.
ReturnedDiameters(given) ==
    IF given.kind = "float" /\ given.num > 0 THEN {given}
    ELSE EstimatedDiameters

\* Mutant of EvalArgument: the parsed diameter is not handed over.
EvalArgumentUnset == None

\* The diameter argument of the model.eval call.
EvalArgument == cell_diameter

\* lines 81-82: model.eval(img, diameter = cell_diameter, channels = channels)
Eval ==
    /\ pc = "eval"
    /\ \/ /\ eval_diameter' = EvalArgument
          /\ \E m \in RawMasks, d \in ReturnedDiameters(EvalArgument) :
                /\ mask' = m
                /\ model_mask' = m
                /\ diameter' = d
          /\ pc' = "trim"
          /\ completed' = completed \cup {"eval"}
       \/ /\ Raise
          /\ eval_diameter' = EvalArgument
          /\ UNCHANGED <<mask, model_mask, diameter, completed>>
    /\ UNCHANGED <<cell_diameter, output_zip, canvas, cells,
                   min_size, mask_file, roi_archive, writes>>

\* line 86
Trim ==
    /\ pc = "trim"
    /\ mask' = trim(mask)
    /\ pc' = "remove_small"
    /\ UNCHANGED <<cell_diameter, output_zip, diameter, model_mask, canvas,
                   cells, eval_diameter, min_size, completed,
                   mask_file, roi_archive, writes>>

\* Mutant of Threshold: a quarter of the diameter.
ThresholdQuarter == Half(Half(diameter))

\* The size threshold of line 90.
Threshold == Half(diameter)

\* lines 87-90
RemoveSmall ==
    /\ pc = "remove_small"
    /\ min_size' = IF cell_number(mask) > 1 THEN Threshold ELSE min_size
    /\ \/ /\ canvas' = FillCanvas(zeros_like, mask, 1, cell_number(mask),
                                  Threshold)
          /\ pc' = "relabel"
       \/ /\ Raise
          /\ UNCHANGED canvas
    /\ UNCHANGED <<cell_diameter, output_zip, diameter, mask, model_mask,
                   cells, eval_diameter, completed, mask_file,
                   roi_archive, writes>>

\* line 91
Relabel ==
    /\ pc = "relabel"
    /\ mask' = relabel_sequential(canvas)
    /\ pc' = "imsave"
    /\ completed' = completed \cup {"clean"}
    /\ UNCHANGED <<cell_diameter, output_zip, diameter, model_mask, canvas,
                   cells, eval_diameter, min_size, mask_file,
                   roi_archive, writes>>

\* Mutant of AfterSave: the ROI branch is taken whatever output_zip is.
AfterSaveAlways == "contours"

\* Where the script goes after the mask is saved (line 98).
AfterSave == IF output_zip # "None" THEN "contours" ELSE "done"

\* line 95: io.imsave(output_mask_file, mask)
SaveMask ==
    /\ pc = "imsave"
    /\ \/ /\ mask_file' = File(mask)
          /\ writes' = Append(writes, "mask")
          /\ pc' = AfterSave
       \/ /\ Raise
          /\ UNCHANGED <<mask_file, writes>>
    /\ UNCHANGED <<cell_diameter, output_zip, diameter, mask, model_mask,
                   canvas, cells, eval_diameter, min_size, completed,
                   roi_archive>>

\* The contour line 106 keeps: cell[0][0], the first one findContours lists.
\* Which region comes first is OpenCV's choice.
FirstContours(contours) == contours

\* The ROI loop's cell_id: one cell is appended per iteration from 1 on.
roi_cell_id == Len(cells) + 1

\* lines 103-107, one iteration; lines 100-102 set the loop up
ExtractROI ==
    /\ pc = "contours"
    /\ roi_cell_id < roi_cell_number(mask)
    /\ LET contours == findContours(Equals(mask, roi_cell_id))
       IN  IF contours # {}
           THEN /\ \E c \in FirstContours(contours) : cells' = Append(cells, c)
                /\ pc' = pc
           ELSE \* cell[0][0] on an empty tuple: IndexError
                /\ Raise
                /\ UNCHANGED cells
    /\ UNCHANGED <<cell_diameter, output_zip, diameter, mask, model_mask,
                   canvas, eval_diameter, min_size, completed, mask_file,
                   roi_archive, writes>>

\* lines 110-111: the ROIs and their names
RoiEntries(cs) == [i \in 1 .. Len(cs) |-> [name |-> str(i - 1), roi |-> cs[i]]]

\* lines 110-112: roiwrite(output_zip, rois, roi_ids, mode = "w")
SaveROIs ==
    /\ pc = "contours"
    /\ roi_cell_id >= roi_cell_number(mask)
    /\ \/ /\ roi_archive' = File(RoiEntries(cells))
          /\ writes' = Append(writes, "rois")
          /\ pc' = "done"
       \/ /\ Raise
          /\ UNCHANGED <<roi_archive, writes>>
    /\ UNCHANGED <<cell_diameter, output_zip, diameter, mask, model_mask,
                   canvas, cells, eval_diameter, min_size, completed,
                   mask_file>>

Next ==
    \/ InitModel
    \/ ParseArg
    \/ LoadImage
    \/ Claher
    \/ Eval
    \/ Trim
    \/ RemoveSmall
    \/ Relabel
    \/ SaveMask
    \/ ExtractROI
    \/ SaveROIs

Spec == Init /\ [][Next]_vars

\* ================================================================ claims
\* What the claims speak of, stated apart from the operators above.
Cleaned == "clean" \in completed
NonZero(image) == {p \in Pixels : image[p] # 0}
LabelsOf(image) == {image[p] : p \in Pixels} \ {0}
MaxLabelOf(image) == Cardinality({k \in 1 .. MaxLabel : \E v \in LabelsOf(image) : v >= k})
OnBorder(p) == p[1] \in {0, Height - 1} \/ p[2] \in {0, Width - 1}
RasterIndex(p) == p[1] * Width + p[2]
FirstAppearance(image, v) ==
    CHOOSE i \in 0 .. (Height * Width - 1) :
        /\ \E p \in Pixels : RasterIndex(p) = i /\ image[p] = v
        /\ \A p \in Pixels : image[p] = v => RasterIndex(p) >= i

\* C1: once cleaning has completed, the mask (and the mask written to the
\* file) is 0 at every pixel of row 0, row Height-1, column 0 and column
\* Width-1, whatever mask and diameter the model returned.
C1_BorderZero ==
    Cleaned =>
        /\ \A p \in Pixels : OnBorder(p) => mask[p] = 0
        /\ mask_file # Absent =>
              \A p \in Pixels : OnBorder(p) => mask_file[1][p] = 0

\* C1 witness: the model returned labelled edge pixels and a cell survived
\* cleaning.
C1_Witness ==
    /\ Cleaned
    /\ \E p \in Pixels : OnBorder(p) /\ model_mask[p] # 0
    /\ NonZero(mask) # {}
    /\ mask_file # Absent

\* C2: the distinct non-zero labels of the cleaned mask (and of the mask
\* file) are exactly 1 .. max_label, with no gap, max_label = 0 included.
C2_LabelDensity ==
    Cleaned =>
        /\ LabelsOf(mask) = 1 .. Cardinality(LabelsOf(mask))
        /\ mask_file # Absent =>
              LabelsOf(mask_file[1]) = 1 .. Cardinality(LabelsOf(mask_file[1]))

\* C2 witness: removal left a gap in the canvas (label 2 survived, label 1
\* did not) and the mask was written.
C2_Witness ==
    /\ Cleaned
    /\ mask_file # Absent
    /\ 2 \in LabelsOf(canvas)
    /\ 1 \notin LabelsOf(canvas)
    /\ 1 \in LabelsOf(model_mask)

\* C2, the case max_label = 0: every raw label was removed.
C2_WitnessEmpty ==
    /\ Cleaned
    /\ mask_file # Absent
    /\ LabelsOf(mask) = {}
    /\ \E p \in Pixels : ~OnBorder(p) /\ model_mask[p] # 0

\* C3: in the cleaned mask every connected component of every label, under
\* 4-connectivity and under 8-connectivity, has at least diameter / 2 pixels,
\* diameter being the value the model returned.
C3_SizeThreshold ==
    Cleaned =>
        \A k \in LabelsOf(mask) : \A connectivity \in {1, 2} :
            \A c \in Components({p \in Pixels : mask[p] = k}, connectivity) :
                2 * Cardinality(c) * diameter.den >= diameter.num

\* C3 witness: one label had a component removed for its size while another
\* of its components survived, the two touching only diagonally or not at all.
C3_Witness ==
    /\ Cleaned
    /\ \E p, q \in Pixels :
          /\ ~OnBorder(p)
          /\ ~OnBorder(q)
          /\ model_mask[p] # 0
          /\ model_mask[p] = model_mask[q]
          /\ mask[p] = 0
          /\ mask[q] # 0

\* C4: when the archive is written it holds exactly max_label ROIs, one for
\* each label 1 .. max_label of the mask file, and a run that was given the
\* archive path and ended normally has written it.
C4_RoiCount ==
    /\ roi_archive # Absent =>
          /\ Len(roi_archive[1]) = MaxLabelOf(mask_file[1])
          /\ \A k \in 1 .. MaxLabelOf(mask_file[1]) :
                Cardinality({i \in 1 .. Len(roi_archive[1]) :
                    roi_archive[1][i].roi \subseteq
                        {p \in Pixels : mask_file[1][p] = k}}) = 1
    /\ (pc = "done" /\ output_zip # "None") => roi_archive # Absent

\* C4 witness: an archive written for a mask in which one label has two
\* regions that do not touch, and another label is present.
C4_Witness ==
    /\ roi_archive # Absent
    /\ Len(roi_archive[1]) = 2
    /\ \E k \in LabelsOf(mask) :
          Cardinality(Components({p \in Pixels : mask[p] = k}, 2)) >= 2

\* The decimal strings float() accepts among ArgStrings, stated by position:
\* digits, then at most one point, then digits, one digit at least.
DecimalDigits == {"0", "1", "2", "3", "4", "5", "6", "7", "8", "9"}
DigitOf(ch) ==
    CASE ch = "0" -> 0 [] ch = "1" -> 1 [] ch = "2" -> 2 [] ch = "3" -> 3
      [] ch = "4" -> 4 [] ch = "5" -> 5 [] ch = "6" -> 6 [] ch = "7" -> 7
      [] ch = "8" -> 8 [] ch = "9" -> 9
IsNumeric(s) ==
    \E k \in 0 .. Len(s) :
        /\ \A i \in 1 .. k : s[i] \in DecimalDigits
        /\ \/ k = Len(s)
           \/ /\ s[k + 1] = "."
              /\ \A i \in (k + 2) .. Len(s) : s[i] \in DecimalDigits
        /\ \E i \in 1 .. Len(s) : s[i] \in DecimalDigits
\* x, a float, is the number the decimal string s writes: reading the digits
\* left to right gives x times ten to the number of digits after the point.
RECURSIVE ReadLeft(_, _)
ReadLeft(s, acc) ==
    IF s = <<>> THEN acc
    ELSE IF Head(s) = "." THEN ReadLeft(Tail(s), acc)
    ELSE ReadLeft(Tail(s), 10 * acc + DigitOf(Head(s)))
RECURSIVE Scale(_)
Scale(s) ==
    IF s = <<>> THEN 1
    ELSE IF Head(s) = "." THEN Scale(Tail(s)) ELSE 10 * Scale(Tail(s))
AfterPoint(s) ==
    IF \E i \in 1 .. Len(s) : s[i] = "."
    THEN SubSeq(s, 1 + (CHOOSE i \in 1 .. Len(s) : s[i] = "."), Len(s))
    ELSE <<>>
IsTheNumber(x, s) ==
    /\ x.kind = "float"
    /\ x.den > 0
    /\ x.num * Scale(AfterPoint(s)) = ReadLeft(s, 0) * x.den

\* C5: parsing a non-numeric cell_diameter raises nothing and leaves the
\* diameter unset, parsing a numeric one yields that number; model.eval is
\* called with the parsed value (unset or the number); the diameter it returns
\* is a number, and the size threshold handed to the removal of each label
\* is half of that returned diameter.
C5_DiameterAuto ==
    [][ /\ pc = "parse_diameter" =>
              /\ pc' = "imread"
              /\ IF IsNumeric(cell_diameter.chars)
                 THEN IsTheNumber(cell_diameter', cell_diameter.chars)
                 ELSE cell_diameter'.kind = "None"
        /\ pc = "eval" =>
              /\ eval_diameter'.kind = cell_diameter.kind
              /\ cell_diameter.kind = "float" =>
                    /\ eval_diameter'.num = cell_diameter.num
                    /\ eval_diameter'.den = cell_diameter.den
              /\ pc' = "trim" => diameter'.kind = "float"
        /\ (pc = "remove_small" /\ LabelsOf(mask) # {}) =>
              /\ diameter.kind = "float"
              /\ min_size'.kind = "float"
              /\ 2 * min_size'.num * diameter.den = diameter.num * min_size'.den
      ]_vars

\* C5 witness: the diameter was left unset by the parse, model.eval was
\* called with it unset, and a threshold was computed from the returned one.
C5_Witness ==
    /\ cell_diameter.kind = "None"
    /\ eval_diameter.kind = "None"
    /\ diameter.kind = "float"
    /\ min_size.kind = "float"
    /\ Cleaned

\* C6: without the archive path no ROI is extracted and no archive exists,
\* and a run that ends normally has written the mask file and nothing else;
\* with the path, a run that ends normally has written the mask and then the
\* archive, once each.
C6_NoRoiWithoutPath ==
    /\ writes \in {<<>>, <<"mask">>, <<"mask", "rois">>}
    /\ output_zip = "None" =>
          /\ roi_archive = Absent
          /\ cells = <<>>
          /\ pc # "contours"
          /\ writes \in {<<>>, <<"mask">>}
    /\ (pc = "done" /\ output_zip = "None") =>
          /\ writes = <<"mask">>
          /\ mask_file # Absent
    /\ (pc = "done" /\ output_zip # "None") =>
          /\ writes = <<"mask", "rois">>
          /\ mask_file # Absent
          /\ roi_archive # Absent

\* C6 witness: a run without the archive path ended normally with a mask
\* holding cells.
C6_Witness ==
    /\ pc = "done"
    /\ output_zip = "None"
    /\ mask_file # Absent
    /\ NonZero(mask) # {}

\* C7: a file is written only after model initialisation, image loading,
\* CLAHE, inference and cleaning have all completed; a failed run takes no
\* further step, and no stage is ever entered twice.
StageNumber(stage) ==
    CASE stage = "init_model" -> 1 [] stage = "parse_diameter" -> 2
      [] stage = "imread" -> 3 [] stage = "claher" -> 4 [] stage = "eval" -> 5
      [] stage = "trim" -> 6 [] stage = "remove_small" -> 7
      [] stage = "relabel" -> 8 [] stage = "imsave" -> 9
      [] stage = "contours" -> 10 [] stage = "done" -> 11
      [] stage = "failed" -> 12
C7_NoOutputBeforeStages ==
    /\ [](writes # <<>> =>
            {"init_model", "imread", "claher", "eval", "clean"}
                \subseteq completed)
    /\ [](mask_file # Absent => writes # <<>>)
    /\ [][ /\ pc # "failed"
           /\ \/ StageNumber(pc') > StageNumber(pc)
              \/ pc = "contours" /\ pc' = "contours" /\ Len(cells') > Len(cells)
           /\ writes' # writes => pc \in {"imsave", "contours"}
         ]_vars

\* C7 witness: mask cleaning failed after inference and nothing was written.
C7_Witness ==
    /\ pc = "failed"
    /\ "eval" \in completed
    /\ ~Cleaned
    /\ mask_file = Absent
    /\ writes = <<>>

\* C8: the archive entry at position i + 1 is named str(i) and is the
\* outline of all the pixels labelled i + 1 in the cleaned mask.
C8_RoiOfLabel ==
    roi_archive # Absent =>
        /\ Len(roi_archive[1]) = MaxLabelOf(mask)
        /\ \A i \in 0 .. (Len(roi_archive[1]) - 1) :
              /\ roi_archive[1][i + 1].name = ToString(i)
              /\ roi_archive[1][i + 1].roi = {p \in Pixels : mask[p] = i + 1}

\* What does hold of the archive: entry i + 1 is named str(i) and outlines one
\* 8-connected region of the pixels labelled i + 1.
RoiOrderAndNames ==
    roi_archive # Absent =>
        /\ Len(roi_archive[1]) = MaxLabelOf(mask)
        /\ \A i \in 0 .. (Len(roi_archive[1]) - 1) :
              /\ roi_archive[1][i + 1].name = ToString(i)
              /\ roi_archive[1][i + 1].roi \in
                    Components({p \in Pixels : mask[p] = i + 1}, 2)

\* C9 as stated: relabelling maps the surviving labels onto 1 .. n without
\* gaps, keeps 0 at 0 and numbers the labels in the order of their first
\* appearance in the canvas (raster order).
C9_FirstAppearanceOrder ==
    Cleaned =>
        /\ LabelsOf(mask) = 1 .. Cardinality(LabelsOf(canvas))
        /\ \A p \in Pixels : canvas[p] = 0 <=> mask[p] = 0
        /\ \A p, q \in NonZero(canvas) :
              FirstAppearance(canvas, canvas[p]) < FirstAppearance(canvas, canvas[q])
                  <=> mask[p] < mask[q]

\* C9 amended: relabelling maps the surviving labels onto 1 .. n without
\* gaps, keeps 0 at 0 and preserves the numeric order of the label values.
C9_ValueOrder ==
    Cleaned =>
        /\ LabelsOf(mask) = 1 .. Cardinality(LabelsOf(canvas))
        /\ \A p \in Pixels : canvas[p] = 0 <=> mask[p] = 0
        /\ \A p, q \in NonZero(canvas) : canvas[p] < canvas[q] <=> mask[p] < mask[q]

\* C9 witness: two labels survived removal and the larger one appears first
\* in raster order.
C9_Witness ==
    /\ Cleaned
    /\ LabelsOf(canvas) = {1, 2}
    /\ FirstAppearance(canvas, 2) < FirstAppearance(canvas, 1)
    /\ LabelsOf(mask) = {1, 2}

\* C10: every foreground pixel of the cleaned mask was foreground in the
\* model's mask; two foreground pixels of the cleaned mask share a label
\* exactly when they shared one in the model's mask; the cleaned mask has as
\* many labels as the model's mask has labels with a surviving pixel.
C10_NoAddNoMerge ==
    Cleaned =>
        /\ \A p \in NonZero(mask) : model_mask[p] # 0
        /\ \A p, q \in NonZero(mask) :
              mask[p] = mask[q] <=> model_mask[p] = model_mask[q]
        /\ Cardinality(LabelsOf(mask)) =
              Cardinality({k \in LabelsOf(model_mask) :
                  \E p \in NonZero(mask) : model_mask[p] = k})

\* C10 witness: of two raw labels inside the border one lost all its pixels
\* and the other survived.
C10_Witness ==
    /\ Cleaned
    /\ \E p, q \in Pixels :
          /\ ~OnBorder(p)
          /\ ~OnBorder(q)
          /\ model_mask[p] # 0
          /\ model_mask[q] # 0
          /\ model_mask[p] # model_mask[q]
          /\ mask[q] # 0
          /\ \A r \in Pixels : model_mask[r] = model_mask[p] => mask[r] = 0

====
